---- MODULE Spec2Model ----
(***************************************************************************)
(* Conway's Game of Life as implemented by src/gameoflife.js: a canvas of  *)
(* width x height RGBA pixels, seeded at random and advanced by tick(),    *)
(* which re-arms itself with window.setTimeout.                            *)
(*                                                                         *)
(* An ImageData is a record [width, height, data] whose data is the flat   *)
(* byte array [r, g, b, a, r, g, b, a, ...], indexed from 0.  The running  *)
(* function's locals (before, after, x, y) and its position are kept in    *)
(* frame; JavaScript runs a callback to completion, so a timer fires only  *)
(* when no function is running.                                            *)
(***************************************************************************)
EXTENDS Integers, Sequences, FiniteSets

VARIABLES width, height, canvas, frame, timers, started, log, meter

vars == <<width, height, canvas, frame, timers, started, log, meter>>

\* Largest grid of the seeded runs, and the number of ticks followed.
MaxW == 3
MaxH == 2
MaxTicks == 3
\* Largest grids of the block and blinker runs.
MaxBlockDim == 5
MaxBlinkerDim == 6

\* Red-channel values of living and dead cells.
alive == 0
dead == 255

----------------------------------------------------------------------------
(* Canvas primitives.                                                      *)

\* ctx.createImageData with its arguments in the wrong order.
createImageDataSwapped(w, h) ==
    [width |-> h, height |-> w, data |-> [i \in 0..(4 * w * h - 1) |-> 0]]

\* ctx.createImageData(w, h): a blank (transparent black) pixel array.
createImageData(w, h) ==
    [width |-> w, height |-> h, data |-> [i \in 0..(4 * w * h - 1) |-> 0]]

\* canvas.width = width; canvas.height = height: a cleared bitmap.
blankCanvas(w, h) ==
    [width |-> w, height |-> h, data |-> [i \in 0..(4 * w * h - 1) |-> 0]]

\* ctx.getImageData(0, 0, sw, sh): a copy of the bitmap's rectangle; pixels
\* outside the bitmap read as transparent black.
getImageData(cv, sw, sh) ==
    [width |-> sw, height |-> sh,
     data |-> [i \in 0..(4 * sw * sh - 1) |->
                 LET p == i \div 4
                     c == i % 4
                     px == p % sw
                     py == p \div sw
                 IN IF px < cv.width /\ py < cv.height
                    THEN cv.data[4 * (px + py * cv.width) + c]
                    ELSE 0]]

\* ctx.putImageData(img, 0, 0): copies img onto the bitmap, clipped to it.
putImageData(cv, img) ==
    [cv EXCEPT !.data =
        [i \in DOMAIN cv.data |->
            LET p == i \div 4
                c == i % 4
                px == p % cv.width
                py == p \div cv.width
            IN IF px < img.width /\ py < img.height
               THEN img.data[4 * (px + py * img.width) + c]
               ELSE cv.data[i]]]

\* No ImageData: the locals of a function that is not running.
NoImage == [width |-> 0, height |-> 0, data |-> [i \in {} |-> 0]]

----------------------------------------------------------------------------
(* The functions of the program.                                           *)

\* cell testing "!== dead" instead of "=== alive": undefined counts as alive.
cellNotDead(before, x, y) ==
    LET index == (x * 4) + (y * width * 4)
    IN IF index \in DOMAIN before.data
       THEN (IF before.data[index] # dead THEN 1 ELSE 0)
       ELSE 1

\* cell with a bounds check on the coordinates: off-grid reads dead.
cellBounded(before, x, y) ==
    LET index == (x * 4) + (y * width * 4)
    IN IF x >= 0 /\ x < width /\ y >= 0 /\ y < height
          /\ index \in DOMAIN before.data
       THEN (IF before.data[index] = alive THEN 1 ELSE 0)
       ELSE 0

\* cell(before, x, y): 1 when the red byte at the raw index equals alive.
\* An index outside the array reads undefined, which is not === alive.
cell(before, x, y) ==
    LET index == (x * 4) + (y * width * 4)
    IN IF index \in DOMAIN before.data
       THEN (IF before.data[index] = alive THEN 1 ELSE 0)
       ELSE 0

\* neighborsLiving with the (x - 1, y + 1) term missing.
neighborsLivingSeven(before, x, y) ==
    cell(before, x - 1, y) +
    cell(before, x + 1, y) +
    cell(before, x + 0, y + 1) +
    cell(before, x + 0, y - 1) +
    cell(before, x + 1, y + 1) +
    cell(before, x + 1, y - 1) +
    cell(before, x - 1, y - 1)

\* neighborsLiving that also adds the cell itself.
neighborsLivingWithSelf(before, x, y) ==
    cell(before, x - 1, y) +
    cell(before, x + 1, y) +
    cell(before, x + 0, y + 1) +
    cell(before, x + 0, y - 1) +
    cell(before, x + 1, y + 1) +
    cell(before, x + 1, y - 1) +
    cell(before, x - 1, y + 1) +
    cell(before, x - 1, y - 1) +
    cell(before, x + 0, y + 0)

neighborsLiving(before, x, y) ==
    cell(before, x - 1, y) +
    cell(before, x + 1, y) +
    cell(before, x + 0, y + 1) +
    cell(before, x + 0, y - 1) +
    cell(before, x + 1, y + 1) +
    cell(before, x + 1, y - 1) +
    cell(before, x - 1, y + 1) +
    cell(before, x - 1, y - 1)

\* The coordinates neighborsLiving(before, x, y) hands to cell, in order.
neighborLookups(x, y) ==
    << <<x - 1, y>>, <<x + 1, y>>, <<x + 0, y + 1>>, <<x + 0, y - 1>>,
       <<x + 1, y + 1>>, <<x + 1, y - 1>>, <<x - 1, y + 1>>, <<x - 1, y - 1>> >>

\* shouldLive that lets a living cell survive with two neighbours only.
shouldLiveOnlyTwo(before, x, y) ==
    LET self == cell(before, x, y)
        neighbors == neighborsLiving(before, x, y)
    IN (self = 1 /\ neighbors = 2) \/ (self # 1 /\ neighbors = 3)

\* shouldLive with "neighbors <= 3" for a dead cell.
shouldLiveAtMostThree(before, x, y) ==
    LET self == cell(before, x, y)
        neighbors == neighborsLiving(before, x, y)
    IN (self # 0 /\ (neighbors = 2 \/ neighbors = 3)) \/
       (self = 0 /\ neighbors <= 3)

shouldLive(before, x, y) ==
    LET self == cell(before, x, y)
        neighbors == neighborsLiving(before, x, y)
    IN (self # 0 /\ (neighbors = 2 \/ neighbors = 3)) \/
       (self = 0 /\ neighbors = 3)

\* One store into a typed array: an index outside the array is ignored.
store(data, index, val) ==
    IF index \in DOMAIN data THEN [data EXCEPT ![index] = val] ELSE data

\* write indexing rows by height instead of width.
writeByHeight(after, x, y, val) ==
    LET index == (x * 4) + (y * height * 4)
    IN [after EXCEPT !.data =
          store(store(store(store(@, index + 0, val),
                            index + 1, 255), index + 2, 255), index + 3, 255)]

\* write that sets the red channel only.
writeRedOnly(after, x, y, val) ==
    LET index == (x * 4) + (y * width * 4)
    IN [after EXCEPT !.data = store(@, index + 0, val)]

\* write(after, x, y, val): four stores at the raw index; no bounds check
\* and no throw.
write(after, x, y, val) ==
    LET index == (x * 4) + (y * width * 4)
    IN [after EXCEPT !.data =
          store(store(store(store(@, index + 0, val),
                            index + 1, 255), index + 2, 255), index + 3, 255)]

\* write has no throw statement: it never raises an error.
writeThrows(after, x, y, val) == FALSE

\* window.setTimeout called twice.
setTimeoutTwice(pending) == pending + 2

\* window.setTimeout(tick, 100): one more pending timer.
setTimeout(pending) == pending + 1

----------------------------------------------------------------------------
(* Loop bookkeeping.                                                       *)

\* The running function has written no cell and looked none up yet.
NoMeter == [written |-> <<>>, lookups |-> 0]

\* The frame of no running function.
Idle(pc) == [pc |-> pc, before |-> NoImage, after |-> NoImage, x |-> 0, y |-> 0]

\* for (x ...) for (y ...): the indices after one pass of the inner body.
NextX(x, y) == IF y + 1 < height THEN x ELSE x + 1
NextY(x, y) == IF y + 1 < height THEN y + 1 ELSE 0

InRange(x, y) == x \in 0..(width - 1) /\ y \in 0..(height - 1)

\* The pixel array seed leaves when exactly the cells of living came up
\* alive: red is alive or dead, the other channels are 255.
Generation(w, h, living) ==
    [width |-> w, height |-> h,
     data |-> [i \in 0..(4 * w * h - 1) |->
                 IF i % 4 # 0 THEN 255
                 ELSE IF <<(i \div 4) % w, (i \div 4) \div w>> \in living
                      THEN alive ELSE dead]]

----------------------------------------------------------------------------
(* Actions.                                                                *)

\* seed(): var after = ctx.createImageData(width, height).
SeedBegin ==
    /\ frame.pc = "start"
    /\ frame' = [pc |-> "seed", before |-> NoImage,
                 after |-> createImageData(width, height), x |-> 0, y |-> 0]
    /\ meter' = NoMeter
    /\ UNCHANGED <<width, height, canvas, timers, started, log>>

\* One pass of seed's inner loop body; Math.random() > 0.5 is either way.
SeedCell ==
    /\ frame.pc = "seed"
    /\ frame.x < width
    /\ \E r \in BOOLEAN :
         frame' = [frame EXCEPT
                     !.after = write(@, frame.x, frame.y,
                                     IF r THEN alive ELSE dead),
                     !.x = NextX(frame.x, frame.y),
                     !.y = NextY(frame.x, frame.y)]
    /\ meter' = [meter EXCEPT !.written = Append(@, <<frame.x, frame.y>>)]
    /\ UNCHANGED <<width, height, canvas, timers, started, log>>

\* seed returning without ctx.putImageData.
SeedEndNoPut ==
    /\ frame.pc = "seed"
    /\ frame.x >= width
    /\ frame' = Idle("seeded")
    /\ UNCHANGED <<width, height, canvas, timers, started, log, meter>>

\* seed's loops are over: ctx.putImageData(after, 0, 0) and return.
SeedEnd ==
    /\ frame.pc = "seed"
    /\ frame.x >= width
    /\ canvas' = putImageData(canvas, frame.after)
    /\ log' = Append(log, canvas')
    /\ frame' = Idle("seeded")
    /\ UNCHANGED <<width, height, timers, started, meter>>

\* tick's first statement: before is a copy of the canvas, after is blank.
tickEnter ==
    /\ started < MaxTicks
    /\ started' = started + 1
    /\ frame' = [pc |-> "tick",
                 before |-> getImageData(canvas, width, height),
                 after |-> createImageData(width, height),
                 x |-> 0, y |-> 0]
    /\ meter' = NoMeter
    /\ UNCHANGED <<width, height, canvas, log>>

\* The top-level call tick() that follows seed().
TickCall ==
    /\ frame.pc = "seeded"
    /\ tickEnter
    /\ UNCHANGED timers

\* A pending timer fires while nothing is running and calls tick.
TimerFire ==
    /\ frame.pc = "idle"
    /\ timers > 0
    /\ timers' = timers - 1
    /\ tickEnter

\* tick's loop body with Math.random() deciding, as in seed.
TickCellRandom ==
    /\ frame.pc = "tick"
    /\ frame.x < width
    /\ \E r \in BOOLEAN :
         frame' = [frame EXCEPT
                     !.after = write(@, frame.x, frame.y,
                                     IF r THEN alive ELSE dead),
                     !.x = NextX(frame.x, frame.y),
                     !.y = NextY(frame.x, frame.y)]
    /\ meter' = [written |-> Append(meter.written, <<frame.x, frame.y>>),
                 lookups |-> meter.lookups +
                             Len(neighborLookups(frame.x, frame.y))]
    /\ UNCHANGED <<width, height, canvas, timers, started, log>>

\* tick's loop body when after is the same array as before.
TickCellInPlace ==
    /\ frame.pc = "tick"
    /\ frame.x < width
    /\ LET state == shouldLive(frame.before, frame.x, frame.y)
           both == write(frame.before, frame.x, frame.y,
                         IF state THEN alive ELSE dead)
       IN frame' = [frame EXCEPT
                      !.before = both,
                      !.after = both,
                      !.x = NextX(frame.x, frame.y),
                      !.y = NextY(frame.x, frame.y)]
    /\ meter' = [written |-> Append(meter.written, <<frame.x, frame.y>>),
                 lookups |-> meter.lookups +
                             Len(neighborLookups(frame.x, frame.y))]
    /\ UNCHANGED <<width, height, canvas, timers, started, log>>

\* One pass of tick's inner loop body.
TickCell ==
    /\ frame.pc = "tick"
    /\ frame.x < width
    /\ LET state == shouldLive(frame.before, frame.x, frame.y)
       IN frame' = [frame EXCEPT
                      !.after = write(@, frame.x, frame.y,
                                      IF state THEN alive ELSE dead),
                      !.x = NextX(frame.x, frame.y),
                      !.y = NextY(frame.x, frame.y)]
    /\ meter' = [written |-> Append(meter.written, <<frame.x, frame.y>>),
                 lookups |-> meter.lookups +
                             Len(neighborLookups(frame.x, frame.y))]
    /\ UNCHANGED <<width, height, canvas, timers, started, log>>

\* tick whose outer loop stops one column early (x < width - 1).
TickEndEarly ==
    /\ frame.pc = "tick"
    /\ frame.x >= width - 1
    /\ canvas' = putImageData(canvas, frame.after)
    /\ log' = Append(log, canvas')
    /\ timers' = setTimeout(timers)
    /\ frame' = Idle("idle")
    /\ UNCHANGED <<width, height, started, meter>>

\* tick returning without window.setTimeout.
TickEndNoTimer ==
    /\ frame.pc = "tick"
    /\ frame.x >= width
    /\ canvas' = putImageData(canvas, frame.after)
    /\ log' = Append(log, canvas')
    /\ frame' = Idle("idle")
    /\ UNCHANGED <<width, height, timers, started, meter>>

\* tick's loops are over: install the result and re-arm the timer.
TickEnd ==
    /\ frame.pc = "tick"
    /\ frame.x >= width
    /\ canvas' = putImageData(canvas, frame.after)
    /\ log' = Append(log, canvas')
    /\ timers' = setTimeout(timers)
    /\ frame' = Idle("idle")
    /\ UNCHANGED <<width, height, started, meter>>

\* A call write(after, x, y, val) with any coordinates around the grid.
WriteCall ==
    /\ frame.pc = "write"
    /\ \E wx \in (-1)..width, wy \in (-1)..height, wval \in {alive, dead} :
         frame' = [frame EXCEPT !.after = write(@, wx, wy, wval),
                                !.x = wx, !.y = wy, !.val = wval]
    /\ UNCHANGED <<width, height, canvas, timers, started, log, meter>>

----------------------------------------------------------------------------
(* Specifications.                                                         *)

\* The page has loaded: the canvas is sized and cleared, seed() is next.
Init ==
    /\ width \in 1..MaxW
    /\ height \in 1..MaxH
    /\ canvas = blankCanvas(width, height)
    /\ frame = Idle("start")
    /\ timers = 0
    /\ started = 0
    /\ log = <<>>
    /\ meter = NoMeter

Next ==
    \/ SeedBegin
    \/ SeedCell
    \/ SeedEnd
    \/ TickCall
    \/ TimerFire
    \/ TickCell
    \/ TickEnd

Spec == Init /\ [][Next]_vars

\* The script and every callback run to their end, and a pending timer
\* fires once nothing is running.
SpecFair ==
    /\ Spec
    /\ WF_vars(SeedBegin \/ SeedCell \/ SeedEnd \/ TickCall \/ TickCell \/ TickEnd)
    /\ WF_vars(TimerFire)

\* The ticking part of the program, entered once seed has returned.
NextTick ==
    \/ TickCall
    \/ TimerFire
    \/ TickCell
    \/ TickEnd

\* seed has returned and drew exactly the cells of living alive.
Seeded(living) ==
    /\ canvas = putImageData(blankCanvas(width, height),
                             Generation(width, height, living))
    /\ frame = Idle("seeded")
    /\ timers = 0
    /\ started = 0
    /\ log = <<canvas>>
    /\ meter = NoMeter

\* seed drew a 2x2 block, anywhere, on a grid of at least 4x4.
InitBlock ==
    /\ width \in 4..MaxBlockDim
    /\ height \in 4..MaxBlockDim
    /\ \E bx \in 0..(width - 2), by \in 0..(height - 2) :
         Seeded({bx, bx + 1} \X {by, by + 1})

SpecBlock == InitBlock /\ [][NextTick]_vars

\* seed drew the horizontal blinker on a grid of at least 5x5.
InitBlinker ==
    /\ width \in 5..MaxBlinkerDim
    /\ height \in 5..MaxBlinkerDim
    /\ Seeded({<<1, 2>>, <<2, 2>>, <<3, 2>>})

SpecBlinker == InitBlinker /\ [][NextTick]_vars

\* write applied to any fully written pixel array, at any coordinates.
InitWrite ==
    /\ width \in 1..MaxW
    /\ height \in 1..MaxH
    /\ canvas = blankCanvas(width, height)
    /\ \E living \in SUBSET ((0..(width - 1)) \X (0..(height - 1))) :
         frame = [pc |-> "write", before |-> NoImage,
                  after |-> Generation(width, height, living),
                  x |-> 0, y |-> 0, val |-> dead]
    /\ timers = 0
    /\ started = 0
    /\ log = <<>>
    /\ meter = NoMeter

NextWrite == WriteCall

SpecWrite == InitWrite /\ [][NextWrite]_vars

----------------------------------------------------------------------------
(* Properties of the seeded runs (Spec).                                   *)

\* The cells of the grid.
Xs == 0..(width - 1)
Ys == 0..(height - 1)

\* Every cell of generation g is dead.
AllDead(g) == \A cx \in Xs, cy \in Ys : cell(g, cx, cy) = 0

\* g is a pixel array of the grid's dimensions.
GridSized(g) ==
    /\ g.width = width
    /\ g.height = height
    /\ DOMAIN g.data = 0..(4 * width * height - 1)

\* C1: in every installed generation after the first, a cell is alive
\* exactly when it was alive with 2 or 3 living neighbours or dead with
\* exactly 3, the count being the one neighborsLiving computes on the
\* previous generation: a living cell with 0, 1 or at least 4 dies, a dead
\* cell with any count but 3 stays dead.
C1_LifeRule ==
    \A i \in 1..(Len(log) - 1) : \A cx \in Xs, cy \in Ys :
        LET s == cell(log[i], cx, cy)
            n == neighborsLiving(log[i], cx, cy)
            t == cell(log[i + 1], cx, cy)
        IN /\ (s = 1 /\ n \in {2, 3}) => t = 1
           /\ (s = 1 /\ (n < 2 \/ n >= 4)) => t = 0
           /\ (s = 0 /\ n = 3) => t = 1
           /\ (s = 0 /\ n # 3) => t = 0

\* Generation log[i] has a cell in state s whose neighbour count is in ns,
\* and its successor is installed.
HasCase(s, ns) ==
    \E i \in 1..(Len(log) - 1) : \E cx \in Xs, cy \in Ys :
        cell(log[i], cx, cy) = s /\ neighborsLiving(log[i], cx, cy) \in ns

\* The ticks of one run have decided a survivor, an overcrowded cell, a
\* lonely cell, a birth and a dead cell that stays dead.
C1_Witness ==
    /\ HasCase(1, {2, 3})
    /\ HasCase(1, 4..8)
    /\ HasCase(1, {0, 1})
    /\ HasCase(0, {3})
    /\ HasCase(0, (0..8) \ {3})

\* C2: while a tick runs, the cell query on its input generation answers
\* dead (0) at every coordinate outside the grid, so off-grid neighbours
\* add nothing to a neighbour count.
C2_OffGridDead ==
    frame.pc = "tick" =>
        \A cx \in (-1)..width, cy \in (-1)..height :
            ~InRange(cx, cy) => cell(frame.before, cx, cy) = 0

\* C5: whenever the same generation was installed twice in a run, the
\* generations installed by the ticks that followed are the same too.
C5_Deterministic ==
    \A i \in 1..(Len(log) - 1), j \in 1..(Len(log) - 1) :
        log[i] = log[j] => log[i + 1] = log[j + 1]

\* Two ticks of one run started from the same generation, one with living
\* cells, and both have installed their result.
C5_Witness ==
    \E i \in 1..(Len(log) - 1), j \in 1..(Len(log) - 1) :
        i < j /\ log[i] = log[j] /\ ~AllDead(log[i])

\* C6: while a tick runs, before stays the copy of the canvas taken at its
\* start and the canvas is not written; the generation it installs holds at
\* every cell the decision of shouldLive on that unmodified input.
C6_InputUntouched ==
    [][/\ (frame.pc = "tick" /\ frame'.pc = "tick") =>
            /\ frame'.before = frame.before
            /\ frame.before = getImageData(canvas, width, height)
            /\ canvas' = canvas
       /\ (frame.pc = "tick" /\ frame'.pc # "tick") =>
            \A cx \in Xs, cy \in Ys :
                cell(canvas', cx, cy) =
                    IF shouldLive(frame.before, cx, cy) THEN 1 ELSE 0]_vars

\* A tick is past a cell whose state it has changed in after and has more
\* cells to decide.
C6_Witness ==
    /\ frame.pc = "tick"
    /\ frame.x < width
    /\ \E cx \in Xs, cy \in Ys :
         /\ cx < frame.x \/ (cx = frame.x /\ cy < frame.y)
         /\ cell(frame.after, cx, cy) # cell(frame.before, cx, cy)

\* C7: a tick that starts from an all-dead canvas installs an all-dead
\* generation of the same size.
C7_EmptyStaysEmpty ==
    [][AllDead(canvas) => AllDead(canvas') /\ GridSized(canvas')]_vars

\* A generation with living cells died out and a later tick has installed
\* the successor of the all-dead generation.
C7_Witness ==
    /\ Len(log) >= 3
    /\ ~AllDead(log[1])
    /\ AllDead(log[2])
    /\ AllDead(log[3])

\* C8: the canvas, every installed generation and the buffers of a running
\* seed or tick have the dimensions chosen at construction, which never
\* change.
C8_Dimensions ==
    /\ [](/\ GridSized(canvas)
          /\ \A i \in 1..Len(log) : GridSized(log[i])
          /\ frame.pc \in {"seed", "tick"} => GridSized(frame.after)
          /\ frame.pc = "tick" => GridSized(frame.before))
    /\ [][width' = width /\ height' = height]_vars

\* A tick on a grid that is not square has installed its result.
C8_Witness ==
    /\ width # height
    /\ Len(log) >= 2
    /\ frame.pc = "idle"

\* C10: at most one tick is pending or running; a tick enters only when no
\* function is running and every earlier tick has installed its result.
C10_SingleFlight ==
    /\ [](/\ timers + (IF frame.pc = "tick" THEN 1 ELSE 0) <= 1
          /\ frame.pc = "tick" => Len(log) = started
          /\ (frame.pc \in {"seeded", "idle"}) => Len(log) = started + 1)
    /\ [][started' # started =>
            /\ started' = started + 1
            /\ frame.pc \in {"seeded", "idle"}
            /\ Len(log) = started + 1]_vars

\* The second tick is running: it was started by the timer the first armed.
C10_Witness ==
    /\ started = 2
    /\ frame.pc = "tick"
    /\ timers = 0

----------------------------------------------------------------------------
(* Properties of the pattern runs and of write.                            *)

\* The living cells of generation g.
AliveSet(g) == {c \in Xs \X Ys : cell(g, c[1], c[2]) = 1}

\* C3: started from a 2x2 block on an otherwise dead grid of at least 4x4,
\* every generation a tick installs is the first one.
C3_BlockStill == \A i \in 1..Len(log) : log[i] = log[1]

\* Two ticks have installed their results for a block in the top right
\* corner of the grid.
C3_Witness ==
    /\ Len(log) >= 3
    /\ AliveSet(log[1]) = {width - 2, width - 1} \X {0, 1}

\* C4: started from the horizontal blinker, every odd tick installs the
\* vertical line {(2,1),(2,2),(2,3)} and every even tick the horizontal
\* line {(1,2),(2,2),(3,2)} again.
C4_Blinker ==
    \A i \in 1..Len(log) :
        AliveSet(log[i]) =
            IF i % 2 = 1 THEN {<<1, 2>>, <<2, 2>>, <<3, 2>>}
                         ELSE {<<2, 1>>, <<2, 2>>, <<2, 3>>}

\* Two ticks have run on the blinker: vertical, then horizontal again.
C4_Witness ==
    /\ Len(log) >= 3
    /\ AliveSet(log[2]) = {<<2, 1>>, <<2, 2>>, <<2, 3>>}
    /\ AliveSet(log[3]) = {<<1, 2>>, <<2, 2>>, <<3, 2>>}

\* C9: a call of write with coordinates outside the grid raises an error
\* and leaves the pixel array as it was.
C9_WriteOutOfRange ==
    [][(frame'.pc = "write" /\ ~InRange(frame'.x, frame'.y)) =>
          /\ writeThrows(frame.after, frame'.x, frame'.y, frame'.val)
          /\ frame'.after = frame.after]_vars

\* C9, second half alone: a call of write with coordinates outside the
\* grid leaves every cell as it was.
C9_NoSilentStore ==
    [][(frame'.pc = "write" /\ ~InRange(frame'.x, frame'.y)) =>
          \A cx \in Xs, cy \in Ys :
              cell(frame'.after, cx, cy) = cell(frame.after, cx, cy)]_vars

----------------------------------------------------------------------------
(* Lifecycle, neighbour count, raw indices and written pixels.             *)

\* Every pixel of g holds alive or dead in red and 255 in the other three
\* channels.
FullyWritten(g) ==
    \A p \in 0..(width * height - 1) :
        /\ g.data[4 * p] \in {alive, dead}
        /\ g.data[4 * p + 1] = 255
        /\ g.data[4 * p + 2] = 255
        /\ g.data[4 * p + 3] = 255

\* The generation the life rule makes of g, as a fully written pixel array.
RuleOf(g) ==
    Generation(width, height,
               {c \in Xs \X Ys : shouldLive(g, c[1], c[2])})

\* C11: seed is entered only from the start of the script, which is never
\* returned to; a tick reads the generation installed last, the first tick
\* the fully written one seed installed; every later generation is exactly
\* the rule's result on the one before it.
C11_Lifecycle ==
    /\ [](/\ frame.pc \in {"start", "seed"} => (log = <<>> /\ started = 0)
          /\ frame.pc \in {"seeded", "tick", "idle"} =>
                (Len(log) >= 1 /\ FullyWritten(log[1]))
          /\ frame.pc = "tick" => frame.before = log[Len(log)]
          /\ frame.pc # "tick" =>
                (log = <<>> \/ canvas = log[Len(log)])
          /\ \A i \in 1..(Len(log) - 1) : log[i + 1] = RuleOf(log[i]))
    /\ [][/\ (frame'.pc = "seed" /\ frame.pc # "seed") => frame.pc = "start"
          /\ frame.pc # "start" => frame'.pc # "start"]_vars

\* Two ticks have replaced the generation seed installed, and all three
\* generations differ.
C11_Witness ==
    /\ Len(log) >= 3
    /\ log[1] # log[2]
    /\ log[2] # log[3]
    /\ log[1] # log[3]

\* The 8 offsets of a cell's neighbours.
Offsets ==
    {<<-1, -1>>, <<-1, 0>>, <<-1, 1>>, <<0, -1>>,
     <<0, 1>>, <<1, -1>>, <<1, 0>>, <<1, 1>>}

\* The sum of the cell query at (cx, cy) moved by each offset of offs.
RECURSIVE SumCells(_, _, _, _)
SumCells(g, cx, cy, offs) ==
    IF offs = {} THEN 0
    ELSE LET o == CHOOSE o \in offs : TRUE
         IN cell(g, cx + o[1], cy + o[2]) + SumCells(g, cx, cy, offs \ {o})

\* C12: while a tick runs, the neighbour count of every cell of its input
\* is the sum of the cell query over the 8 offsets, each taken once and
\* (0,0) not among them, and lies in 0..8.
C12_EightOffsets ==
    frame.pc = "tick" =>
        \A cx \in Xs, cy \in Ys :
            /\ neighborsLiving(frame.before, cx, cy) =
                   SumCells(frame.before, cx, cy, Offsets)
            /\ neighborsLiving(frame.before, cx, cy) \in 0..8

\* A tick runs on a generation with a living cell whose own count is 0
\* while it is counted in the neighbourhood of another cell.
C12_Witness ==
    /\ frame.pc = "tick"
    /\ width >= 2
    /\ \E cx \in Xs, cy \in Ys :
         /\ cell(frame.before, cx, cy) = 1
         /\ neighborsLiving(frame.before, cx, cy) = 0
    /\ \E cx \in Xs, cy \in Ys : neighborsLiving(frame.before, cx, cy) >= 1

\* C13: while a tick runs, the cell query at a coordinate on or around the
\* grid reads the stored cell its raw index 4*(x + y*width) falls on, and
\* dead only when the index is outside the array: (-1, y) with y >= 1
\* reads cell (width-1, y-1) and (width, y) with y <= height-2 reads cell
\* (0, y+1).
C13_RawIndex ==
    frame.pc = "tick" =>
        /\ \A cx \in (-1)..width, cy \in (-1)..height :
             LET p == cx + cy * width
             IN cell(frame.before, cx, cy) =
                    IF p \in 0..(width * height - 1)
                    THEN cell(frame.before, p % width, p \div width)
                    ELSE 0
        /\ \A cy \in 1..height :
             cell(frame.before, -1, cy) = cell(frame.before, width - 1, cy - 1)
        /\ \A cy \in (-1)..(height - 2) :
             cell(frame.before, width, cy) = cell(frame.before, 0, cy + 1)

\* A tick runs on a generation where the off-grid coordinates (-1, 1) and
\* (width, 0) both read a living cell of the adjacent row.
C13_Witness ==
    /\ frame.pc = "tick"
    /\ width >= 2
    /\ height >= 2
    /\ cell(frame.before, -1, 1) = 1
    /\ cell(frame.before, width, 0) = 1
    /\ cell(frame.before, 0, 0) = 0

\* C15: distinct cells of the grid have distinct raw indices, and a call of
\* write at a cell of the grid makes the cell query there answer the value
\* written and leaves it unchanged at every other cell of the grid.
C15_WriteThenCell ==
    /\ [](\A c \in Xs \X Ys, d \in Xs \X Ys :
            (c[1] * 4) + (c[2] * width * 4) = (d[1] * 4) + (d[2] * width * 4)
                => c = d)
    /\ [][(frame'.pc = "write" /\ InRange(frame'.x, frame'.y)) =>
            \A cx \in Xs, cy \in Ys :
                cell(frame'.after, cx, cy) =
                    IF cx = frame'.x /\ cy = frame'.y
                    THEN (IF frame'.val = alive THEN 1 ELSE 0)
                    ELSE cell(frame.after, cx, cy)]_vars

\* write has just made the last cell of a grid that is not square alive,
\* and another cell of the grid is dead.
C15_Witness ==
    /\ frame.pc = "write"
    /\ width # height
    /\ frame.x = width - 1
    /\ frame.y = height - 1
    /\ frame.val = alive
    /\ cell(frame.after, frame.x, frame.y) = 1
    /\ cell(frame.after, 0, 0) = 0

\* C16: every installed generation, seed's and every tick's, is fully
\* written: red is alive or dead and the other channels are 255 at every
\* cell, none is left at the blank array's 0.
C16_AllWritten ==
    /\ \A i \in 1..Len(log) : FullyWritten(log[i])
    /\ log # <<>> => FullyWritten(canvas)

\* seed's generation and two ticks' generations are installed, with a
\* living cell (red 0) in the last.
C16_Witness ==
    /\ Len(log) >= 3
    /\ \E cx \in Xs, cy \in Ys : cell(log[3], cx, cy) = 1

----------------------------------------------------------------------------
(* Work done by one tick.                                                  *)

\* C14: a running tick has written exactly the cells its loops have passed,
\* each once and each a cell of the grid, with 8 neighbour lookups per cell;
\* when its loops are over, and when its result is installed, that is every
\* cell of the grid once and width*height*8 lookups.
C14_EveryCellOnce ==
    /\ frame.pc = "tick" =>
         LET k == Len(meter.written)
         IN /\ k = frame.x * height + frame.y
            /\ \A i \in 1..k : InRange(meter.written[i][1], meter.written[i][2])
            /\ \A i \in 1..k, j \in 1..k :
                   meter.written[i] = meter.written[j] => i = j
            /\ meter.lookups = 8 * k
            /\ frame.x >= width =>
                  {meter.written[i] : i \in 1..k} = Xs \X Ys
    /\ frame.pc = "idle" =>
         /\ Len(meter.written) = width * height
         /\ {meter.written[i] : i \in 1..Len(meter.written)} = Xs \X Ys
         /\ meter.lookups = width * height * 8
         /\ Len(log) = started + 1

\* The second tick on a grid of more than one row and column has installed
\* its result.
C14_Witness ==
    /\ frame.pc = "idle"
    /\ started = 2
    /\ width >= 2
    /\ height >= 2
    /\ meter.lookups = width * height * 8

----------------------------------------------------------------------------
(* The timer loop (SpecFair).                                              *)

\* C17: a tick that installs its result arms exactly one timer and returns,
\* so at most one timer is ever pending and one is pending whenever the
\* program is idle; generations are installed one at a time and, with the
\* timer firing fairly, a new one is installed again and again, for as
\* many ticks as are followed (MaxTicks).
C17_KeepsTicking ==
    /\ [](timers <= 1 /\ (frame.pc = "idle" => timers = 1))
    /\ [][(frame.pc = "tick" /\ frame'.pc # "tick") =>
            /\ timers' = timers + 1
            /\ Len(log') = Len(log) + 1
            /\ frame'.pc = "idle"]_vars
    /\ [][Len(log') \in {Len(log), Len(log) + 1}]_vars
    /\ <>(Len(log) = MaxTicks + 1)

\* The timer has fired twice: the third tick has installed its result and
\* armed the next timer.
C17_Witness ==
    /\ started >= 3
    /\ frame.pc = "idle"
    /\ timers = 1
    /\ Len(log) = started + 1

====
